---------------------------- MODULE Spec2Model ----------------------------
(***************************************************************************)
(* Alexa <-> Gemini bridge: the request dispatch of the skill built in     *)
(* gemini-skill/backend/main.py and of the skills built by                 *)
(* shared/alexa_utils.py build_skill.                                      *)
(*                                                                         *)
(* One inbound envelope is handled at a time (skill.invoke is synchronous):*)
(*   Receive -> Dispatch -> <handler>.handle [-> _ask_gemini outcome]      *)
(*           [-> exception boundary] -> done | propagated                  *)
(*                                                                         *)
(* A response is the state of handler_input.response_builder: what was     *)
(* passed to speak, set_card and set_should_end_session.  An optional      *)
(* value (Python None) is the empty sequence <<>>, a present value v is    *)
(* <<v>>.                                                                  *)
(***************************************************************************)
EXTENDS Naturals, Sequences, FiniteSets, TLC

VARIABLES
    build_args,          \* the arguments build_skill was called with (called = FALSE: main.py's sb)
    request_handlers,    \* the skill's request handlers, in registration order
    exception_handlers,  \* the skill's exception handlers, in registration order
    pc,                  \* position of the invocation in flight
    envelope,            \* the inbound request envelope
    selected,            \* index in request_handlers of the handler dispatch chose (0: none)
    invoked,             \* the handlers whose handle ran for this envelope, in order
    question,            \* GeminiQueryIntentHandler.handle's local `question`
    response,            \* handler_input.response_builder's response
    exc,                 \* the exception in flight (<<>>: none)
    upstream,            \* the outcome of _ask_gemini for this envelope (<<>>: not called)
    calls,               \* _ask_gemini calls made for this envelope
    served,              \* envelopes received so far
    gemini_calls,        \* _ask_gemini calls made so far
    eligible_requests    \* envelopes received so far that carry a non-empty question

vars == <<build_args, request_handlers, exception_handlers, pc, envelope, selected,
          invoked, question, response, exc, upstream, calls, served, gemini_calls,
          eligible_requests>>

(***************************************************************************)
(* Bounds                                                                  *)
(***************************************************************************)
MaxRequests == 2

MaxHandlers == 2

(***************************************************************************)
(* Inbound envelopes                                                       *)
(***************************************************************************)
RequestTypes == {"LaunchRequest", "IntentRequest", "SessionEndedRequest",
                 "CanFulfillIntentRequest"}

IntentNames == {"GeminiQueryIntent", "AMAZON.HelpIntent", "AMAZON.CancelIntent",
                "AMAZON.StopIntent", "AMAZON.FallbackIntent"}

SlotNames == {"question", "topic"}

\* Slot.value: None, the empty string, or a spoken text
SlotValues == {<<>>, <<"">>, <<"What is the speed of light?">>}

\* intent.slots when it is a dict: slot name -> Slot.value
SlotMaps == UNION {[d -> SlotValues] : d \in SUBSET SlotNames}

\* intent.slots: None or a dict
SlotsOptions == {<<>>} \cup {<<m>> : m \in SlotMaps}

\* The intents without slots in the interaction model come with no slots or an
\* empty dict; GeminiQueryIntent with every slots value.
Envelopes ==
    {[type |-> t, intent_name |-> "", slots |-> <<>>] :
        t \in RequestTypes \ {"IntentRequest"}}
    \cup
    {[type |-> "IntentRequest", intent_name |-> "GeminiQueryIntent", slots |-> s] :
        s \in SlotsOptions}
    \cup
    {[type |-> "IntentRequest", intent_name |-> n, slots |-> s] :
        n \in IntentNames \ {"GeminiQueryIntent"}, s \in {<<>>, << <<>> >>}}

NoEnvelope == [type |-> "", intent_name |-> "", slots |-> <<>>]

\* what _ask_gemini may return, and the str() of what it may raise
GeminiTexts == {"299,792,458 m/s", "", "  padded  "}

GeminiErrors == {"network unreachable", "", "KeyError: 'GEMINI_API_KEY'"}

(***************************************************************************)
(* ask_sdk_core predicates and the response builder, as the handlers use   *)
(* them                                                                    *)
(***************************************************************************)
is_request_type(t, env) == env.type = t

\* false for every request that is not an IntentRequest
is_intent_name(n, env) == env.type = "IntentRequest" /\ env.intent_name = n

EmptyResponse == [output_speech |-> <<>>, card |-> <<>>, should_end_session |-> <<>>]

speak(r, speech) == [r EXCEPT !.output_speech = <<speech>>]

set_card(r, title, content) ==
    [r EXCEPT !.card = <<[title |-> title, content |-> content]>>]

set_should_end_session(r, b) == [r EXCEPT !.should_end_session = <<b>>]

(***************************************************************************)
(* can_handle of the request handlers                                      *)
(***************************************************************************)
LaunchRequestHandler_can_handle(env) == is_request_type("LaunchRequest", env)

GeminiQueryIntentHandler_can_handle(env) == is_intent_name("GeminiQueryIntent", env)

HelpIntentHandler_can_handle(env) == is_intent_name("AMAZON.HelpIntent", env)

\* a slip: every intent request
CancelAndStop_can_handle_AnyIntent(env) == is_request_type("IntentRequest", env)

CancelAndStopIntentHandler_can_handle(env) ==
    is_intent_name("AMAZON.CancelIntent", env) \/ is_intent_name("AMAZON.StopIntent", env)

SessionEndedRequestHandler_can_handle(env) == is_request_type("SessionEndedRequest", env)

\* Handlers a caller of build_skill supplies besides main.py's own: one that takes
\* over Cancel and Stop, one that takes over Stop and SessionEnded.
SkillStopHandler_can_handle(env) ==
    is_intent_name("AMAZON.CancelIntent", env) \/ is_intent_name("AMAZON.StopIntent", env)

SkillFarewellHandler_can_handle(env) ==
    is_intent_name("AMAZON.StopIntent", env) \/ is_request_type("SessionEndedRequest", env)

CallerOnlyHandlers == {"SkillStopHandler", "SkillFarewellHandler"}

\* handler.can_handle(handler_input), by the handler's class
can_handle(h, env) ==
    CASE h = "LaunchRequestHandler" -> LaunchRequestHandler_can_handle(env)
      [] h = "GeminiQueryIntentHandler" -> GeminiQueryIntentHandler_can_handle(env)
      [] h = "HelpIntentHandler" -> HelpIntentHandler_can_handle(env)
      [] h = "CancelAndStopIntentHandler" -> CancelAndStopIntentHandler_can_handle(env)
      [] h = "SessionEndedRequestHandler" -> SessionEndedRequestHandler_can_handle(env)
      [] h = "SkillStopHandler" -> SkillStopHandler_can_handle(env)
      [] h = "SkillFarewellHandler" -> SkillFarewellHandler_can_handle(env)
      [] OTHER -> FALSE

(***************************************************************************)
(* Exception handlers                                                      *)
(***************************************************************************)
\* a slip: only the dispatcher's own "no handler found"
CatchAll_can_handle_DispatchOnly(e) == e = "DispatchException"

CatchAllExceptionHandler_can_handle(e) == TRUE

\* An exception handler a caller of build_skill supplies: it takes only the
\* failures of a handler's own code.
SkillExceptionHandler_can_handle(e) == e = "AttributeError"

exception_can_handle(h, e) ==
    CASE h = "CatchAllExceptionHandler" -> CatchAllExceptionHandler_can_handle(e)
      [] h = "SkillExceptionHandler" -> SkillExceptionHandler_can_handle(e)
      [] OTHER -> FALSE

ApologySpeech == "Sorry, something went wrong. Please try again later."

CatchAllExceptionHandler_handle(r) ==
    set_should_end_session(speak(r, ApologySpeech), TRUE)

SkillExceptionHandler_handle(r) ==
    set_should_end_session(speak(r, "SkillExceptionHandler"), TRUE)

(***************************************************************************)
(* The skills                                                              *)
(***************************************************************************)
\* a slip: the Stop/Cancel handler is not registered
sb_WithoutCancelAndStop ==
    [request_handlers |-> <<"LaunchRequestHandler", "GeminiQueryIntentHandler",
                            "HelpIntentHandler", "SessionEndedRequestHandler">>,
     exception_handlers |-> <<"CatchAllExceptionHandler">>]

\* main.py's module-level skill builder
sb ==
    [request_handlers |-> <<"LaunchRequestHandler", "GeminiQueryIntentHandler",
                            "HelpIntentHandler", "CancelAndStopIntentHandler",
                            "SessionEndedRequestHandler">>,
     exception_handlers |-> <<"CatchAllExceptionHandler">>]

\* a slip: the generic handlers are registered first
build_skill_GenericFirst(rh, eh) ==
    [request_handlers |->
        <<"CancelAndStopIntentHandler", "SessionEndedRequestHandler">> \o rh,
     exception_handlers |->
        IF eh = <<>> \/ eh = << <<>> >> THEN <<"CatchAllExceptionHandler">> ELSE eh[1]]

\* build_skill(request_handlers, exception_handlers): eh is <<>> for None and
\* <<list>> for a list; `exception_handlers or [CatchAllExceptionHandler()]`
\* takes the default for None and for the empty list, both falsy.
build_skill(rh, eh) ==
    [request_handlers |->
        rh \o <<"CancelAndStopIntentHandler", "SessionEndedRequestHandler">>,
     exception_handlers |->
        IF eh = <<>> \/ eh = << <<>> >> THEN <<"CatchAllExceptionHandler">> ELSE eh[1]]

\* what a caller may pass to build_skill
SkillSpecificHandlers == {"LaunchRequestHandler", "GeminiQueryIntentHandler",
                          "HelpIntentHandler", "SkillStopHandler",
                          "SkillFarewellHandler"}

RequestHandlerLists == UNION {[1..n -> SkillSpecificHandlers] : n \in 0..MaxHandlers}

ExceptionHandlerArgs == {<<>>, << <<>> >>, << <<"SkillExceptionHandler">> >>,
                         << <<"CatchAllExceptionHandler">> >>,
                         << <<"SkillExceptionHandler", "CatchAllExceptionHandler">> >>}

NoBuildArgs == [called |-> FALSE, request_handlers |-> <<>>, exception_handlers |-> <<>>]

(***************************************************************************)
(* Dispatch                                                                *)
(***************************************************************************)
Matching(handlers, env) == {i \in 1..Len(handlers) : can_handle(handlers[i], env)}

Min(S) == CHOOSE i \in S : \A j \in S : i <= j

\* the first handler, in registration order, whose can_handle is true (0: none)
FirstMatch(handlers, env) ==
    IF Matching(handlers, env) = {} THEN 0 ELSE Min(Matching(handlers, env))

ExceptionMatching(handlers, e) ==
    {i \in 1..Len(handlers) : exception_can_handle(handlers[i], e)}

FirstExceptionMatch(handlers, e) ==
    IF ExceptionMatching(handlers, e) = {} THEN 0 ELSE Min(ExceptionMatching(handlers, e))

Selected == IF selected = 0 THEN "" ELSE request_handlers[selected]

(***************************************************************************)
(* GeminiQueryIntentHandler.handle and _ask_gemini                         *)
(***************************************************************************)
RepromptSpeech == "I didn't catch a question. Please try again."

GeminiFailurePrefix == "Sorry, I couldn't reach Gemini right now. Error: "

\* slots["question"].value if slots.get("question") else "", for slots a dict
QuestionOf(slots) == IF "question" \in DOMAIN slots THEN slots["question"] ELSE <<"">>

\* Python's `not question`: None and the empty string are falsy
Falsy(q) == q = <<>> \/ q = <<"">>

\* a slip: the card keeps a fixed text
QueryResponse_FixedCard(r, speech) ==
    set_should_end_session(set_card(speak(r, speech), "Gemini", RepromptSpeech), TRUE)

\* the builder chain that ends GeminiQueryIntentHandler.handle, on every branch
QueryResponse(r, speech) ==
    set_should_end_session(set_card(speak(r, speech), "Gemini", speech), TRUE)

\* an envelope that makes GeminiQueryIntentHandler.handle call _ask_gemini
HasQuestion(env) ==
    /\ is_intent_name("GeminiQueryIntent", env)
    /\ env.slots # <<>>
    /\ ~Falsy(QuestionOf(env.slots[1]))

(***************************************************************************)
(* Initial states                                                          *)
(***************************************************************************)
InitInvocation ==
    /\ pc = "idle"
    /\ envelope = NoEnvelope
    /\ selected = 0
    /\ invoked = <<>>
    /\ question = <<>>
    /\ response = EmptyResponse
    /\ exc = <<>>
    /\ upstream = <<>>
    /\ calls = 0
    /\ served = 0
    /\ gemini_calls = 0
    /\ eligible_requests = 0

\* main.py: the skill is built at import
Init ==
    /\ build_args = NoBuildArgs
    /\ request_handlers = sb.request_handlers
    /\ exception_handlers = sb.exception_handlers
    /\ InitInvocation

\* a skill built by build_skill from a caller's handlers
InitBuild ==
    /\ \E rh \in RequestHandlerLists, eh \in ExceptionHandlerArgs :
          /\ build_args = [called |-> TRUE, request_handlers |-> rh,
                           exception_handlers |-> eh]
          /\ request_handlers = build_skill(rh, eh).request_handlers
          /\ exception_handlers = build_skill(rh, eh).exception_handlers
    /\ InitInvocation

(***************************************************************************)
(* skill.invoke                                                            *)
(***************************************************************************)
\* alexa_handler / invoke_skill: a new envelope arrives, with a fresh handler_input
Receive(env) ==
    /\ pc \in {"idle", "done", "propagated"}
    /\ served < MaxRequests
    /\ envelope' = env
    /\ pc' = "dispatch"
    /\ selected' = 0
    /\ invoked' = <<>>
    /\ question' = <<>>
    /\ response' = EmptyResponse
    /\ exc' = <<>>
    /\ upstream' = <<>>
    /\ calls' = 0
    /\ served' = served + 1
    /\ eligible_requests' = eligible_requests + (IF HasQuestion(env) THEN 1 ELSE 0)
    /\ UNCHANGED <<build_args, request_handlers, exception_handlers, gemini_calls>>

\* the dispatcher: first request handler whose can_handle is true; none is a
\* DispatchException, raised inside the exception boundary
Dispatch ==
    /\ pc = "dispatch"
    /\ selected' = FirstMatch(request_handlers, envelope)
    /\ IF FirstMatch(request_handlers, envelope) = 0
          THEN pc' = "exception" /\ exc' = <<"DispatchException">>
          ELSE pc' = "handle" /\ exc' = exc
    /\ UNCHANGED <<build_args, request_handlers, exception_handlers, envelope, invoked,
                   question, response, upstream, calls, served, gemini_calls,
                   eligible_requests>>

Returns(h, r) ==
    /\ pc = "handle"
    /\ Selected = h
    /\ invoked' = Append(invoked, h)
    /\ response' = r
    /\ pc' = "done"
    /\ UNCHANGED <<build_args, request_handlers, exception_handlers, envelope, selected,
                   question, exc, upstream, calls, served, gemini_calls,
                   eligible_requests>>

WelcomeSpeech ==
    "Welcome to Gemini. You can ask me anything. For example, say: ask, what is the speed of light?"

HelpSpeech ==
    "You can ask me any question. For example: ask, what is quantum computing?"

\* a slip: the session is closed after the welcome
LaunchRequestHandler_handle_EndsSession ==
    Returns("LaunchRequestHandler",
            set_should_end_session(
                set_card(speak(response, WelcomeSpeech), "Gemini", WelcomeSpeech), TRUE))

LaunchRequestHandler_handle ==
    Returns("LaunchRequestHandler",
            set_should_end_session(
                set_card(speak(response, WelcomeSpeech), "Gemini", WelcomeSpeech), FALSE))

HelpIntentHandler_handle ==
    Returns("HelpIntentHandler",
            set_should_end_session(
                set_card(speak(response, HelpSpeech), "Gemini Help", HelpSpeech), FALSE))

CancelAndStopIntentHandler_handle ==
    Returns("CancelAndStopIntentHandler",
            set_should_end_session(speak(response, "Goodbye!"), TRUE))

SessionEndedRequestHandler_handle ==
    Returns("SessionEndedRequestHandler", response)

\* the handlers only a caller of build_skill has: each says its own name
CallerSuppliedHandler_handle ==
    /\ Selected \in CallerOnlyHandlers
    /\ Returns(Selected, set_should_end_session(speak(response, Selected), TRUE))

\* a slip: the question is forwarded without the emptiness test
GeminiQueryIntentHandler_handle_NoEmptyTest ==
    /\ pc = "handle"
    /\ Selected = "GeminiQueryIntentHandler"
    /\ invoked' = Append(invoked, "GeminiQueryIntentHandler")
    /\ IF envelope.slots = <<>>
          THEN /\ exc' = <<"AttributeError">>
               /\ pc' = "exception"
               /\ UNCHANGED <<question, response>>
          ELSE /\ question' = QuestionOf(envelope.slots[1])
               /\ exc' = exc
               /\ pc' = "asking"
               /\ response' = response
    /\ UNCHANGED <<build_args, request_handlers, exception_handlers, envelope, selected,
                   upstream, calls, served, gemini_calls, eligible_requests>>

\* handle, up to the call of _ask_gemini: slots None makes slots.get raise
\* AttributeError; a falsy question is answered at once
GeminiQueryIntentHandler_handle ==
    /\ pc = "handle"
    /\ Selected = "GeminiQueryIntentHandler"
    /\ invoked' = Append(invoked, "GeminiQueryIntentHandler")
    /\ IF envelope.slots = <<>>
          THEN /\ exc' = <<"AttributeError">>
               /\ pc' = "exception"
               /\ UNCHANGED <<question, response>>
          ELSE /\ question' = QuestionOf(envelope.slots[1])
               /\ exc' = exc
               /\ IF Falsy(QuestionOf(envelope.slots[1]))
                     THEN /\ response' = QueryResponse(response, RepromptSpeech)
                          /\ pc' = "done"
                     ELSE /\ response' = response
                          /\ pc' = "asking"
    /\ UNCHANGED <<build_args, request_handlers, exception_handlers, envelope, selected,
                   upstream, calls, served, gemini_calls, eligible_requests>>

\* _ask_gemini returns text; handle finishes with it
AskGeminiReturns(text) ==
    /\ pc = "asking"
    /\ upstream' = <<[ok |-> TRUE, text |-> text]>>
    /\ calls' = calls + 1
    /\ gemini_calls' = gemini_calls + 1
    /\ response' = QueryResponse(response, text)
    /\ pc' = "done"
    /\ UNCHANGED <<build_args, request_handlers, exception_handlers, envelope, selected,
                   invoked, question, exc, served, eligible_requests>>

\* a slip: no try/except around the call
AskGeminiRaises_Uncaught(error) ==
    /\ pc = "asking"
    /\ upstream' = <<[ok |-> FALSE, text |-> error]>>
    /\ calls' = calls + 1
    /\ gemini_calls' = gemini_calls + 1
    /\ exc' = <<"Exception">>
    /\ pc' = "exception"
    /\ UNCHANGED <<build_args, request_handlers, exception_handlers, envelope, selected,
                   invoked, question, response, served, eligible_requests>>

\* _ask_gemini raises; `except Exception as exc` turns it into speech
AskGeminiRaises(error) ==
    /\ pc = "asking"
    /\ upstream' = <<[ok |-> FALSE, text |-> error]>>
    /\ calls' = calls + 1
    /\ gemini_calls' = gemini_calls + 1
    /\ response' = QueryResponse(response, GeminiFailurePrefix \o error)
    /\ pc' = "done"
    /\ UNCHANGED <<build_args, request_handlers, exception_handlers, envelope, selected,
                   invoked, question, exc, served, eligible_requests>>

\* the dispatcher's exception boundary: the first exception handler whose
\* can_handle is true answers; with none the exception reaches the caller
ExceptionBoundary ==
    /\ pc = "exception"
    /\ LET i == FirstExceptionMatch(exception_handlers, exc[1]) IN
          IF i = 0
             THEN /\ pc' = "propagated"
                  /\ UNCHANGED <<invoked, response>>
             ELSE /\ pc' = "done"
                  /\ invoked' = Append(invoked, exception_handlers[i])
                  /\ response' =
                        IF exception_handlers[i] = "CatchAllExceptionHandler"
                           THEN CatchAllExceptionHandler_handle(response)
                           ELSE SkillExceptionHandler_handle(response)
    /\ UNCHANGED <<build_args, request_handlers, exception_handlers, envelope, selected,
                   question, exc, upstream, calls, served, gemini_calls,
                   eligible_requests>>

Next ==
    \/ \E env \in Envelopes : Receive(env)
    \/ Dispatch
    \/ LaunchRequestHandler_handle
    \/ GeminiQueryIntentHandler_handle
    \/ \E text \in GeminiTexts : AskGeminiReturns(text)
    \/ \E error \in GeminiErrors : AskGeminiRaises(error)
    \/ HelpIntentHandler_handle
    \/ CancelAndStopIntentHandler_handle
    \/ SessionEndedRequestHandler_handle
    \/ ExceptionBoundary

NextBuild == Next \/ CallerSuppliedHandler_handle

Spec == Init /\ [][Next]_vars

SpecBuild == InitBuild /\ [][NextBuild]_vars

Terminal == pc \in {"done", "propagated"}

(***************************************************************************)
(* Claims                                                                  *)
(***************************************************************************)
\* the registration order of main.py's request handlers, as the claims state it
RegistrationOrder == <<"LaunchRequestHandler", "GeminiQueryIntentHandler",
                       "HelpIntentHandler", "CancelAndStopIntentHandler",
                       "SessionEndedRequestHandler">>

ApologyResponse ==
    [output_speech |-> <<ApologySpeech>>, card |-> <<>>, should_end_session |-> <<TRUE>>]

\* C1, as stated: for every envelope the response is produced by exactly one
\* handler, the first request handler in registration order whose can_handle is
\* true, and by the catch-all with the generic apology if none matches.
C1_OneHandlerProducesResponse ==
    Terminal =>
        /\ pc = "done"
        /\ LET i == FirstMatch(RegistrationOrder, envelope) IN
              IF i # 0
                 THEN invoked = <<RegistrationOrder[i]>>
                 ELSE /\ invoked = <<"CatchAllExceptionHandler">>
                      /\ response = ApologyResponse

\* C1, amended: exactly one request handler's handle is invoked, the first in
\* registration order whose can_handle is true; it produces the response unless
\* its handle raises, and then the catch-all produces the generic apology; if no
\* request handler matches, the catch-all alone is invoked and the response is
\* the generic apology with shouldEndSession = true.
C1_FirstMatchSelected ==
    Terminal =>
        /\ pc = "done"
        /\ LET i == FirstMatch(RegistrationOrder, envelope) IN
              IF i # 0
                 THEN /\ Selected = RegistrationOrder[i]
                      /\ exc = <<>> => invoked = <<RegistrationOrder[i]>>
                      /\ exc # <<>> =>
                            /\ invoked = <<RegistrationOrder[i], "CatchAllExceptionHandler">>
                            /\ response = ApologyResponse
                 ELSE /\ selected = 0
                      /\ invoked = <<"CatchAllExceptionHandler">>
                      /\ response = ApologyResponse

C1_Witness ==
    /\ pc = "done"
    /\ envelope.intent_name = "AMAZON.FallbackIntent"
    /\ invoked = <<"CatchAllExceptionHandler">>
    /\ response = ApologyResponse

\* C2: a GeminiQueryIntent whose question slot is absent from the slots map, or
\* has an empty or missing value, is answered with the re-prompt text and
\* shouldEndSession = false.
C2_RepromptKeepsSessionOpen ==
    (/\ pc = "done"
     /\ Selected = "GeminiQueryIntentHandler"
     /\ envelope.slots # <<>>
     /\ Falsy(QuestionOf(envelope.slots[1])))
    => /\ response.output_speech = <<RepromptSpeech>>
       /\ response.should_end_session = <<FALSE>>

UpstreamRaised == upstream # <<>> /\ ~upstream[1].ok

UpstreamReturned == upstream # <<>> /\ upstream[1].ok

\* C3: when the external call raises, GeminiQueryIntentHandler.handle itself
\* returns "Sorry, I couldn't reach Gemini right now. Error: <error>" with
\* shouldEndSession = true; the exception reaches neither the catch-all handler
\* nor the caller.
C3_UpstreamFailureAnsweredByHandler ==
    UpstreamRaised =>
        /\ pc = "done"
        /\ response.output_speech = <<GeminiFailurePrefix \o upstream[1].text>>
        /\ response.should_end_session = <<TRUE>>
        /\ invoked = <<"GeminiQueryIntentHandler">>
        /\ exc = <<>>

C3_Witness ==
    /\ UpstreamRaised
    /\ upstream[1].text = "network unreachable"
    /\ response.output_speech =
          <<"Sorry, I couldn't reach Gemini right now. Error: network unreachable">>

\* C4: when the external call returns text T, the speech is T unchanged, the card
\* is titled "Gemini" with content T, and shouldEndSession = true.
C4_AnswerVerbatim ==
    UpstreamReturned =>
        /\ pc = "done"
        /\ response.output_speech = <<upstream[1].text>>
        /\ response.card = <<[title |-> "Gemini", content |-> upstream[1].text]>>
        /\ response.should_end_session = <<TRUE>>
        /\ invoked = <<"GeminiQueryIntentHandler">>

C4_Witness ==
    /\ UpstreamReturned
    /\ upstream[1].text = "299,792,458 m/s"
    /\ response.output_speech = <<"299,792,458 m/s">>

\* C5: a failure of the selected handler's handle (GeminiQueryIntentHandler
\* given an intent without a slots map included) never reaches the caller: the
\* catch-all turns it into the fixed apology with shouldEndSession = true, and
\* the invocation ends with one response.
C5_FailuresEndInApology ==
    /\ pc # "propagated"
    /\ (pc = "done" /\ exc # <<>>) =>
          /\ response = ApologyResponse
          /\ invoked[Len(invoked)] = "CatchAllExceptionHandler"
    /\ (pc = "done" /\ exc = <<>>) => Len(invoked) = 1

C5_Witness ==
    /\ pc = "done"
    /\ exc = <<"AttributeError">>
    /\ invoked = <<"GeminiQueryIntentHandler", "CatchAllExceptionHandler">>
    /\ response = ApologyResponse

\* C6: the static handlers return fixed payloads: Launch the welcome text and
\* Help the help text, both with shouldEndSession = false; Cancel and Stop
\* "Goodbye!" with shouldEndSession = true; SessionEnded an empty payload with
\* no speech and no card.
C6_StaticPayloads ==
    pc = "done" =>
        /\ is_request_type("LaunchRequest", envelope) =>
              /\ response.output_speech = <<WelcomeSpeech>>
              /\ response.should_end_session = <<FALSE>>
        /\ is_intent_name("AMAZON.HelpIntent", envelope) =>
              /\ response.output_speech = <<HelpSpeech>>
              /\ response.should_end_session = <<FALSE>>
        /\ (is_intent_name("AMAZON.CancelIntent", envelope)
              \/ is_intent_name("AMAZON.StopIntent", envelope)) =>
              /\ response.output_speech = <<"Goodbye!">>
              /\ response.should_end_session = <<TRUE>>
        /\ is_request_type("SessionEndedRequest", envelope) =>
              /\ response.output_speech = <<>>
              /\ response.card = <<>>

C6_Witness ==
    /\ pc = "done"
    /\ is_intent_name("AMAZON.StopIntent", envelope)
    /\ response.output_speech = <<"Goodbye!">>
    /\ served = 2

\* the handler whose declared variant an envelope is ("": none)
VariantHandler(env) ==
    CASE env.type = "LaunchRequest" -> "LaunchRequestHandler"
      [] env.type = "SessionEndedRequest" -> "SessionEndedRequestHandler"
      [] env.type = "IntentRequest" /\ env.intent_name = "GeminiQueryIntent" ->
            "GeminiQueryIntentHandler"
      [] env.type = "IntentRequest" /\ env.intent_name = "AMAZON.HelpIntent" ->
            "HelpIntentHandler"
      [] env.type = "IntentRequest"
            /\ env.intent_name \in {"AMAZON.CancelIntent", "AMAZON.StopIntent"} ->
            "CancelAndStopIntentHandler"
      [] OTHER -> ""

\* every order in which the five request handlers can be registered
RegistrationOrders ==
    {o \in [1..5 -> {RegistrationOrder[i] : i \in 1..5}] :
        \A i, j \in 1..5 : o[i] = o[j] => i = j}

HandlerAt(handlers, i) == IF i = 0 THEN "" ELSE handlers[i]

\* C7: the can_handle predicates of the five request handlers are mutually
\* exclusive: each is true exactly for the envelopes of its own variant, at most
\* one is true for an envelope, and the handler dispatch selects is the same
\* under every registration order of the five.
C7_CanHandleExclusive ==
    pc \notin {"idle", "dispatch"} =>
        /\ \A i \in 1..5 :
              can_handle(RegistrationOrder[i], envelope)
                 <=> VariantHandler(envelope) = RegistrationOrder[i]
        /\ Cardinality(Matching(RegistrationOrder, envelope)) <= 1
        /\ \A o \in RegistrationOrders :
              HandlerAt(o, FirstMatch(o, envelope)) = Selected

C7_Witness ==
    /\ pc = "handle"
    /\ is_intent_name("AMAZON.CancelIntent", envelope)
    /\ Selected = "CancelAndStopIntentHandler"
    /\ Matching(RegistrationOrder, envelope) = {4}

\* C8: over any sequence of requests the external call is made only while
\* handling a GeminiQueryIntent with a non-empty question, exactly once for
\* that request; every other request makes no external call.
C8_OneCallPerQuestion ==
    /\ calls <= 1
    /\ calls = 1 <=> upstream # <<>>
    /\ calls = 1 => (HasQuestion(envelope) /\ Selected = "GeminiQueryIntentHandler")
    /\ Terminal => calls = (IF HasQuestion(envelope) THEN 1 ELSE 0)
    /\ eligible_requests = gemini_calls
          + (IF pc \in {"dispatch", "handle", "asking"} /\ HasQuestion(envelope)
                THEN 1 ELSE 0)

C8_Witness ==
    /\ pc = "done"
    /\ calls = 1
    /\ UpstreamRaised
    /\ served = 2
    /\ gemini_calls = 1

\* C9: build_skill registers the caller's handlers, in the order given, before
\* the generic CancelAndStopIntentHandler and SessionEndedRequestHandler, so a
\* caller's handler that matches an envelope is selected, never a generic one.
C9_CallerHandlersFirst ==
    LET given == build_args.request_handlers IN
    /\ request_handlers =
          given \o <<"CancelAndStopIntentHandler", "SessionEndedRequestHandler">>
    /\ (pc \notin {"idle", "dispatch"} /\ Matching(given, envelope) # {}) =>
          /\ selected = Min(Matching(given, envelope))
          /\ selected <= Len(given)

C9_Witness ==
    /\ pc = "done"
    /\ build_args.request_handlers = <<"SkillFarewellHandler", "SkillStopHandler">>
    /\ is_intent_name("AMAZON.StopIntent", envelope)
    /\ invoked = <<"SkillFarewellHandler">>

\* C10: build_skill adds the CatchAllExceptionHandler unless exception_handlers
\* is provided: omitted, the skill has exactly the catch-all; provided (any list,
\* the empty list included), only the caller's handlers are registered.
C10_CatchAllUnlessProvided ==
    /\ build_args.exception_handlers = <<>> =>
          exception_handlers = <<"CatchAllExceptionHandler">>
    /\ build_args.exception_handlers # <<>> =>
          exception_handlers = build_args.exception_handlers[1]

====
